---- MODULE Spec2Model ----
(***************************************************************************)
(* Model of the claudesk launcher, src/claudesk/cli.py.                    *)
(*                                                                         *)
(* main() reads sys.argv, resolves the project root from its own file      *)
(* location, builds the bun command line and runs it with subprocess.run,  *)
(* swallowing KeyboardInterrupt raised inside the try block.               *)
(*                                                                         *)
(* A directory or file is the sequence of its components below "/"; the    *)
(* value of __file__ is a record [abs, parts] that may be relative and may *)
(* hold ".", ".." and symlinked components.  Command line words are        *)
(* strings; str(path) renders a path with "/" separators.                  *)
(***************************************************************************)
EXTENDS Integers, Sequences, FiniteSets, TLC

VARIABLES
    argv,        \* sys.argv: program name followed by the caller's arguments
    cwd,         \* the caller's current working directory
    file,        \* __file__ as the import system recorded it
    loc,         \* where the launcher's source file really is (canonical)
    runtime,     \* environment: "ok", "missing" or "noexec" for the bun executable
    pc,          \* position of main: the line about to execute, "wait", "done", "error"
    dev,         \* local dev
    root,        \* local root
    cmd,         \* local cmd
    child,       \* the child process: "none", "running", "exited", "killed"
    spawnCmd,    \* args handed to subprocess.run
    spawnCwd,    \* cwd= handed to subprocess.run
    attempts,    \* number of calls of subprocess.run
    returncode,  \* the child's exit code once it has exited
    exc,         \* the exception propagating out of main, "None" when there is none
    interrupts   \* number of KeyboardInterrupts raised in main

vars == <<argv, cwd, file, loc, runtime, pc, dev, root, cmd, child,
          spawnCmd, spawnCwd, attempts, returncode, exc, interrupts>>

----------------------------------------------------------------------------
(* Bounds *)

MaxArgs == 2
MaxExitCode == 2

----------------------------------------------------------------------------
(* Environment: arguments, file system, child exit codes *)

ProgName == "claudesk"

ArgTokens == {"--dev", "--watch", "--development", "server.ts"}

RECURSIVE SeqsUpTo(_, _)
SeqsUpTo(S, n) ==
    IF n = 0 THEN {<<>>}
    ELSE LET shorter == SeqsUpTo(S, n - 1)
         IN  shorter \cup {Append(s, t) : s \in shorter, t \in S}

Argvs == {<<ProgName>> \o a : a \in SeqsUpTo(ArgTokens, MaxArgs)}

Dirs == {<<>>, <<"opt", "claudesk">>, <<"home", "u">>}

Locs == {<<"opt", "claudesk", "claudesk", "cli.py">>,
         <<"home", "u", "site", "claudesk", "cli.py">>}

LinkPath == <<"usr", "link">>
LinkTarget == <<"opt", "claudesk">>

ExitCodes == 0 .. MaxExitCode

NoCode == -1

Unbound == <<"<unbound>">>

----------------------------------------------------------------------------
(* pathlib *)

Parent(p) == IF p = <<>> THEN <<>> ELSE SubSeq(p, 1, Len(p) - 1)

Deref(p) == IF p = LinkPath THEN LinkTarget ELSE p

RECURSIVE Walk(_, _)
Walk(acc, rest) ==
    IF rest = <<>> THEN acc
    ELSE LET c == Head(rest)
         IN  IF c = "." THEN Walk(acc, Tail(rest))
             ELSE IF c = ".." THEN Walk(Parent(acc), Tail(rest))
             ELSE Walk(Deref(Append(acc, c)), Tail(rest))

Resolve(path, wd) == Walk(IF path.abs THEN <<>> ELSE wd, path.parts)

RECURSIVE Join(_)
Join(p) ==
    IF p = <<>> THEN ""
    ELSE IF Len(p) = 1 THEN p[1]
    ELSE p[1] \o "/" \o Join(Tail(p))

Str(p) == "/" \o Join(p)

----------------------------------------------------------------------------
(* The forms __file__ can take for a source file at f when run from wd *)

RECURSIVE Ups(_)
Ups(n) == IF n = 0 THEN <<>> ELSE <<"..">> \o Ups(n - 1)

RECURSIVE CommonLen(_, _)
CommonLen(a, b) ==
    IF a = <<>> \/ b = <<>> \/ Head(a) # Head(b) THEN 0
    ELSE 1 + CommonLen(Tail(a), Tail(b))

Drop(p, k) == SubSeq(p, k + 1, Len(p))

IsPrefix(a, b) == Len(a) <= Len(b) /\ SubSeq(b, 1, Len(a)) = a

FileForms(f, wd) ==
    LET k == CommonLen(wd, f)
    IN  { [abs |-> TRUE, parts |-> f],
          [abs |-> TRUE, parts |-> Parent(Parent(f)) \o <<"scripts", "..">> \o Drop(f, Len(f) - 2)],
          [abs |-> TRUE, parts |-> Parent(f) \o <<".">> \o Drop(f, Len(f) - 1)],
          [abs |-> FALSE, parts |-> Ups(Len(wd) - k) \o Drop(f, k)] }
        \cup
        { [abs |-> TRUE, parts |-> LinkPath \o Drop(f, Len(LinkTarget))] : x \in
              IF IsPrefix(LinkTarget, f) THEN {1} ELSE {} }

----------------------------------------------------------------------------
(* cli.py *)

_root_noresolve(f, wd) == Parent(Parent(f.parts))

_root(f, wd) == Parent(Parent(Resolve(f, wd)))

HasDev_firstarg(args) == Len(args) >= 2 /\ args[2] = "--dev"

HasDev(args) == \E i \in 1 .. Len(args) : args[i] = "--dev"

ScriptPath_relative(r) == "src/server.ts"

ScriptPath(r) == Str(r \o <<"src", "server.ts">>)

SpawnCwd_inherit(r, wd) == wd

SpawnCwd(r, wd) == r

Catches_nothing(e) == FALSE

Catches_everything(e) == TRUE

Catches(e) == e = "KeyboardInterrupt"

InTry_wholebody(p) == p \in {"l13", "l14", "l15", "l16", "l18", "l20", "wait"}

InTry(p) == p \in {"l20", "wait"}

SpawnError(rt) == IF rt = "missing" THEN "FileNotFoundError" ELSE "PermissionError"

RunRaises_check(code) == IF code # 0 THEN "CalledProcessError" ELSE "None"

RunRaises(code) == "None"

WaitOver_nowait(ch) == TRUE

WaitOver(ch) == ch = "exited"

Final == {"done", "error"}

\* An exception e raised at position p: caught by the handler at line 21 or
\* propagated out of main.
Raise(e, p) ==
    IF InTry(p) /\ Catches(e)
    THEN pc' = "done" /\ exc' = "None"
    ELSE pc' = "error" /\ exc' = e

Init ==
    /\ argv \in Argvs
    /\ cwd \in Dirs
    /\ loc \in Locs
    /\ file \in FileForms(loc, cwd)
    /\ runtime \in {"ok", "missing", "noexec"}
    /\ pc = "l13"
    /\ dev = FALSE
    /\ root = Unbound
    /\ cmd = <<>>
    /\ child = "none"
    /\ spawnCmd = <<>>
    /\ spawnCwd = Unbound
    /\ attempts = 0
    /\ returncode = NoCode
    /\ exc = "None"
    /\ interrupts = 0

CheckDev ==
    /\ pc = "l13"
    /\ dev' = HasDev(argv)
    /\ pc' = "l14"
    /\ UNCHANGED <<argv, cwd, file, loc, runtime, root, cmd, child,
                   spawnCmd, spawnCwd, attempts, returncode, exc, interrupts>>

ResolveRoot ==
    /\ pc = "l14"
    /\ root' = _root(file, cwd)
    /\ pc' = "l15"
    /\ UNCHANGED <<argv, cwd, file, loc, runtime, dev, cmd, child,
                   spawnCmd, spawnCwd, attempts, returncode, exc, interrupts>>

InitCmd ==
    /\ pc = "l15"
    /\ cmd' = <<"bun", "run">>
    /\ pc' = "l16"
    /\ UNCHANGED <<argv, cwd, file, loc, runtime, dev, root, child,
                   spawnCmd, spawnCwd, attempts, returncode, exc, interrupts>>

AppendWatch ==
    /\ pc = "l16"
    /\ cmd' = IF dev THEN Append(cmd, "--watch") ELSE cmd
    /\ pc' = "l18"
    /\ UNCHANGED <<argv, cwd, file, loc, runtime, dev, root, child,
                   spawnCmd, spawnCwd, attempts, returncode, exc, interrupts>>

AppendScript ==
    /\ pc = "l18"
    /\ cmd' = Append(cmd, ScriptPath(root))
    /\ pc' = "l20"
    /\ UNCHANGED <<argv, cwd, file, loc, runtime, dev, root, child,
                   spawnCmd, spawnCwd, attempts, returncode, exc, interrupts>>

Spawn ==
    /\ pc = "l20"
    /\ runtime = "ok"
    /\ spawnCmd' = cmd
    /\ spawnCwd' = SpawnCwd(root, cwd)
    /\ attempts' = attempts + 1
    /\ child' = "running"
    /\ pc' = "wait"
    /\ UNCHANGED <<argv, cwd, file, loc, runtime, dev, root, cmd,
                   returncode, exc, interrupts>>

SpawnFail ==
    /\ pc = "l20"
    /\ runtime # "ok"
    /\ spawnCmd' = cmd
    /\ spawnCwd' = SpawnCwd(root, cwd)
    /\ attempts' = attempts + 1
    /\ Raise(SpawnError(runtime), pc)
    /\ UNCHANGED <<argv, cwd, file, loc, runtime, dev, root, cmd, child,
                   returncode, interrupts>>

ChildExit ==
    /\ child = "running"
    /\ \E code \in ExitCodes : returncode' = code
    /\ child' = "exited"
    /\ UNCHANGED <<argv, cwd, file, loc, runtime, pc, dev, root, cmd,
                   spawnCmd, spawnCwd, attempts, exc, interrupts>>

RunReturn_retry ==
    /\ pc = "wait"
    /\ WaitOver(child)
    /\ IF returncode # 0
       THEN pc' = "l20" /\ exc' = exc
       ELSE pc' = "done" /\ exc' = "None"
    /\ UNCHANGED <<argv, cwd, file, loc, runtime, dev, root, cmd, child,
                   spawnCmd, spawnCwd, attempts, returncode, interrupts>>

RunReturn ==
    /\ pc = "wait"
    /\ WaitOver(child)
    /\ IF RunRaises(returncode) = "None"
       THEN pc' = "done" /\ exc' = "None"
       ELSE Raise(RunRaises(returncode), pc)
    /\ UNCHANGED <<argv, cwd, file, loc, runtime, dev, root, cmd, child,
                   spawnCmd, spawnCwd, attempts, returncode, interrupts>>

Interrupt ==
    /\ pc \notin Final
    /\ interrupts' = interrupts + 1
    /\ Raise("KeyboardInterrupt", pc)
    /\ child' = IF child = "running" THEN "killed" ELSE child
    /\ UNCHANGED <<argv, cwd, file, loc, runtime, dev, root, cmd,
                   spawnCmd, spawnCwd, attempts, returncode>>

Next ==
    \/ CheckDev
    \/ ResolveRoot
    \/ InitCmd
    \/ AppendWatch
    \/ AppendScript
    \/ Spawn
    \/ SpawnFail
    \/ ChildExit
    \/ RunReturn
    \/ Interrupt

Spec == Init /\ [][Next]_vars

(* The launcher's own steps always make progress (one sequential thread);  *)
(* the child is assumed to exit eventually.  Interrupts are never forced.  *)
MainStep ==
    \/ CheckDev
    \/ ResolveRoot
    \/ InitCmd
    \/ AppendWatch
    \/ AppendScript
    \/ Spawn
    \/ SpawnFail
    \/ RunReturn

LiveSpec == Init /\ [][Next]_vars /\ WF_vars(MainStep) /\ WF_vars(ChildExit)

----------------------------------------------------------------------------
(* What the properties are stated against: the launcher's true location    *)
(* loc and the caller's arguments, not main's locals.                      *)

DevPresent == \E i \in DOMAIN argv : argv[i] = "--dev"

ExpectedRoot == SubSeq(loc, 1, Len(loc) - 2)

ExpectedScript ==
    IF loc = <<"opt", "claudesk", "claudesk", "cli.py">>
    THEN "/opt/claudesk/src/server.ts"
    ELSE "/home/u/site/src/server.ts"

\* main has finished building cmd
Built == pc \in {"l20", "wait", "done"} \/ attempts > 0

BuildLines == {"l13", "l14", "l15", "l16", "l18"}

Rank(p) ==
    CASE p = "l13" -> 1
      [] p = "l14" -> 2
      [] p = "l15" -> 3
      [] p = "l16" -> 4
      [] p = "l18" -> 5
      [] p = "l20" -> 6
      [] p = "wait" -> 7
      [] OTHER -> 8

----------------------------------------------------------------------------
(* Properties *)

\* C1: with "--dev" anywhere in the process arguments the built command is
\* exactly [bun, run, --watch, <root>/src/server.ts]; without it the command
\* is exactly [bun, run, <root>/src/server.ts] and holds no "--watch".
C1_WatchIffDev ==
    Built =>
        /\ DevPresent => cmd = <<"bun", "run", "--watch", ExpectedScript>>
        /\ ~DevPresent =>
              /\ cmd = <<"bun", "run", ExpectedScript>>
              /\ \A i \in DOMAIN cmd : cmd[i] # "--watch"

C1_Witness ==
    /\ Built
    /\ Len(argv) = 3
    /\ argv[2] = "--development"
    /\ argv[3] = "--dev"
    /\ cmd[3] = "--watch"

\* C2: the script path is the last element of the command and is always the
\* absolute path <root>/src/server.ts; the command handed to the runtime
\* depends on the arguments only through the presence of "--dev".
C2_ScriptFixed ==
    /\ Built =>
          /\ cmd[Len(cmd)] = ExpectedScript
          /\ Len(cmd) = (IF DevPresent THEN 4 ELSE 3)
          /\ \A i \in 1 .. Len(cmd) - 1 : cmd[i] \in {"bun", "run", "--watch"}
    /\ attempts > 0 =>
          /\ spawnCmd[Len(spawnCmd)] = ExpectedScript
          /\ spawnCmd = IF DevPresent
                        THEN <<"bun", "run", "--watch", ExpectedScript>>
                        ELSE <<"bun", "run", ExpectedScript>>

C2_Witness ==
    /\ attempts > 0
    /\ Len(argv) = 3
    /\ argv[2] = "server.ts"
    /\ argv[3] = "--watch"
    /\ spawnCmd = <<"bun", "run", ExpectedScript>>

\* C3: a KeyboardInterrupt raised while main waits on the child is caught:
\* main goes to its normal final state and no exception propagates.
C3_InterruptSwallowed ==
    [][(pc = "wait" /\ interrupts' > interrupts) => (pc' = "done" /\ exc' = "None")]_vars

C3_Witness ==
    /\ pc = "done"
    /\ exc = "None"
    /\ interrupts = 1
    /\ child = "killed"

\* C4: when the runtime cannot be found or started, the spawn error
\* propagates out of main unchanged; main never returns normally after it.
C4_SpawnErrorPropagates ==
    /\ (attempts > 0 /\ runtime = "missing") =>
          (pc = "error" /\ exc = "FileNotFoundError" /\ child = "none")
    /\ (attempts > 0 /\ runtime = "noexec") =>
          (pc = "error" /\ exc = "PermissionError" /\ child = "none")
    /\ (pc = "done" /\ attempts > 0) => runtime = "ok"

C4_Witness ==
    /\ runtime = "missing"
    /\ attempts = 1
    /\ pc = "error"
    /\ exc = "FileNotFoundError"

\* C5: whatever exit code the child returns, main returns normally with no
\* exception, the same outcome as for exit code 0.
C5_ExitCodeIgnored ==
    (pc \in Final /\ child = "exited") => (pc = "done" /\ exc = "None")

C5_Witness ==
    /\ pc = "done"
    /\ exc = "None"
    /\ child = "exited"
    /\ returncode = MaxExitCode
    /\ interrupts = 0

\* C6: the resolved root is the directory two levels above the launcher's
\* source file, whatever the caller's working directory and whatever form
\* __file__ has.
C6_RootTwoLevelsUp ==
    root # Unbound => root = ExpectedRoot

C6_Witness ==
    /\ root = ExpectedRoot
    /\ ~file.abs
    /\ file.parts[1] = ".."
    /\ cwd # <<>>

\* C7: a spawned child's working directory is the resolved root, the same
\* root the script path was built from, whatever the caller's directory.
C7_ChildCwdIsRoot ==
    child # "none" =>
        /\ spawnCwd = root
        /\ spawnCwd = ExpectedRoot
        /\ spawnCmd[Len(spawnCmd)] = Str(spawnCwd \o <<"src", "server.ts">>)

C7_Witness ==
    /\ child = "running"
    /\ spawnCwd = ExpectedRoot
    /\ cwd # spawnCwd
    /\ dev

\* C8: main is one linear sequence resolve -> build -> run; the spawn uses
\* the fully built command, happens at most once, and main does not return
\* normally while the child still runs unless an interrupt was raised.
C8_Linear ==
    /\ [][pc' # pc => Rank(pc') > Rank(pc)]_vars
    /\ [][attempts' # attempts =>
            /\ pc = "l20"
            /\ attempts = 0
            /\ attempts' = 1
            /\ spawnCmd' = cmd
            /\ Len(cmd) = (IF DevPresent THEN 4 ELSE 3)]_vars
    /\ [](child # "none" => attempts = 1)
    /\ []((pc = "done" /\ child = "running") => interrupts > 0)

C8_Witness ==
    /\ pc = "done"
    /\ attempts = 1
    /\ child = "exited"
    /\ returncode # 0
    /\ interrupts = 0

\* C9: after a successful spawn main leaves the wait only when the child
\* has exited or an interrupt is raised; if the child eventually exits,
\* main eventually returns.
C9_UnboundedWait ==
    /\ [][(pc = "wait" /\ pc' # "wait") =>
            (child = "exited" \/ interrupts' > interrupts)]_vars
    /\ [](pc = "wait" => ~(ENABLED RunReturn) \/ child = "exited")
    /\ (pc = "wait") ~> (pc = "done")

C9_Witness ==
    /\ pc = "done"
    /\ attempts = 1
    /\ child = "exited"
    /\ returncode = 0
    /\ interrupts = 0

\* C10: a KeyboardInterrupt raised before the try block is entered is not
\* caught: it propagates out of main and no child is ever spawned.
C10_EarlyInterruptPropagates ==
    /\ [][(pc \in BuildLines /\ interrupts' > interrupts) =>
            (pc' = "error" /\ exc' = "KeyboardInterrupt")]_vars
    /\ [](exc = "KeyboardInterrupt" =>
            (pc = "error" /\ child = "none" /\ attempts = 0))

C10_Witness ==
    /\ pc = "error"
    /\ exc = "KeyboardInterrupt"
    /\ cmd = <<"bun", "run">>
    /\ child = "none"
    /\ attempts = 0

====
